---- MODULE Spec2Model ----
(***************************************************************************)
(* Verification model of pdebench-web: the explicit finite-difference      *)
(* (FTCS) solvers, the analytical solver, the equation classes, the        *)
(* comparison utilities and the controller/service/session layer.          *)
(*                                                                         *)
(* Real numbers are exact rationals <<num, den>> in lowest terms with      *)
(* den >= 1.  The transcendental functions sin(pi*x), exp(-y) and the      *)
(* constant pi^2 are replaced by rational approximants (sin_pi, exp_neg,   *)
(* PiSquared); none of the properties below depends on their accuracy.     *)
(***************************************************************************)
EXTENDS Integers, Sequences, FiniteSets, TLC

(***************************************************************************)
(* Bounds of the model                                                     *)
(***************************************************************************)
MaxNx == 4
MaxNt == 3

(***************************************************************************)
(* State                                                                   *)
(*   fd      : one call of a finite-difference solver, row by row          *)
(*   core    : the last direct call of an equation class, the analytical    *)
(*             solver or the comparison utilities, with its outcome        *)
(*   session : st.session_state, a mapping whose keys may be missing       *)
(*   svc     : the outcome of the services' _load_solver                   *)
(*   ui      : the position of the Streamlit script run, the widget        *)
(*             values it was started with, and what it has shown so far    *)
(***************************************************************************)
VARIABLES fd, core, session, svc, ui

vars == <<fd, core, session, svc, ui>>

others_fd == <<core, session, svc, ui>>

others_core == <<fd, session, svc, ui>>

\* Python's None
None == [type |-> "None"]

IsNone(d) == d.type = "None"

\* values of the variables a specification does not use
IdleFD == [pc |-> "unused"]

IdleCore == [op |-> "unused"]

IdleApp ==
    /\ session = <<>>
    /\ svc = [analytical |-> FALSE, numerical |-> FALSE]
    /\ ui = [pc |-> "unused"]

(***************************************************************************)
(* Exact rational arithmetic                                               *)
(***************************************************************************)
Abs(a) == IF a < 0 THEN -a ELSE a

Max(a, b) == IF a >= b THEN a ELSE b

RECURSIVE GCD(_, _)
GCD(a, b) == IF b = 0 THEN a ELSE GCD(b, a % b)

R(n, d) ==
    LET s == IF d < 0 THEN -1 ELSE 1
        g == GCD(Abs(n), Abs(d))
    IN  <<(s * n) \div g, (s * d) \div g>>

Zero == <<0, 1>>
One == <<1, 1>>
Half == <<1, 2>>

RAdd(a, b) ==
    LET g == GCD(a[2], b[2])
    IN  R(a[1] * (b[2] \div g) + b[1] * (a[2] \div g), (a[2] \div g) * b[2])

RNeg(a) == <<-a[1], a[2]>>

RSub(a, b) == RAdd(a, RNeg(b))

RMul(a, b) ==
    LET g1 == GCD(Abs(a[1]), b[2])
        g2 == GCD(Abs(b[1]), a[2])
        h1 == IF g1 = 0 THEN 1 ELSE g1
        h2 == IF g2 = 0 THEN 1 ELSE g2
    IN  R((a[1] \div h1) * (b[1] \div h2), (a[2] \div h2) * (b[2] \div h1))

\* defined only for b # 0; callers raise ZeroDivisionError first
RDiv(a, b) == RMul(a, R(b[2], b[1]))

RLt(a, b) == a[1] * b[2] < b[1] * a[2]

RLe(a, b) == a[1] * b[2] <= b[1] * a[2]

RAbs(a) == <<Abs(a[1]), a[2]>>

(***************************************************************************)
(* numpy helpers                                                           *)
(***************************************************************************)
\* np.linspace(0, stop, num): num points, endpoints included
linspace(stop, num) ==
    [i \in 1..num |-> IF num = 1 THEN Zero
                      ELSE RDiv(RMul(stop, R(i - 1, 1)), R(num - 1, 1))]

\* np.zeros((rows, cols))
\* mutant: np.empty, memory as the allocator hands it out: zero pages for
\* the first call of a process, the previous contents afterwards
empty(rows, cols) ==
    [k \in 1..rows |-> [i \in 1..cols |-> IF fd.first.type = "None" THEN Zero ELSE One]]

zeros(rows, cols) == [k \in 1..rows |-> [i \in 1..cols |-> Zero]]

\* Python index k (negative counts from the end) into an axis of size len,
\* as a 1-based position; 0 when the index is out of bounds (IndexError)
PyIdx(k, len) ==
    LET j == IF k < 0 THEN len + k ELSE k
    IN  IF j >= 0 /\ j < len THEN j + 1 ELSE 0

\* rational approximant of np.sin(np.pi * x) on [0, 1]
sin_pi(x) == RMul(R(4, 1), RMul(x, RSub(One, x)))

\* rational approximant of np.exp(-y) for y >= 0
exp_neg(y) == RDiv(One, RAdd(One, y))

\* rational approximant of np.pi**2
PiSquared == R(10, 1)

(***************************************************************************)
(* Initial profiles                                                        *)
(***************************************************************************)
IC_TYPES == {"sinusoidal", "gaussian", "step"}
BC_TYPES == {"dirichlet", "neumann", "mixed"}

\* np.sin(n * np.pi * y) for y >= 0: sin_pi continued with period 2
sin_n_pi(n, y) ==
    LET z == RMul(R(n, 1), y)
        w == RSub(z, R(2 * (z[1] \div (2 * z[2])), 1))
    IN  IF RLe(w, One) THEN sin_pi(w) ELSE RNeg(sin_pi(RSub(w, One)))

\* mutant: the second mode, sin(2*pi*x)
sinusoidal_second_mode(x) == [i \in 1..Len(x) |-> sin_n_pi(2, x[i])]

sinusoidal(x) == [i \in 1..Len(x) |-> sin_pi(x[i])]

gaussian(x) ==
    [i \in 1..Len(x) |->
        LET d == RSub(x[i], Half)
        IN  exp_neg(RMul(R(100, 1), RMul(d, d)))]

step(x) == [i \in 1..Len(x) |-> IF RLt(x[i], Half) THEN One ELSE Zero]

(***************************************************************************)
(* Finite-difference solvers                                               *)
(*   "backend"     backend/solvers/finite_difference.py  (heat, ic/bc)     *)
(*   "traditional" backend/solvers/traditional/finite_difference.py        *)
(*                 (Burgers, equation object)                              *)
(*   "inline"      frontend/app.py solve_heat (heat, gaussian, Neumann)    *)
(*   "inline_burgers" frontend/app.py solve_burgers (Burgers, sine, ends 0) *)
(*   "fallback"    frontend/services/numerical_service.py                  *)
(*                 FallbackNumericalSolver (heat, sine, ends 0)            *)
(***************************************************************************)
FDSolvers == {"backend", "traditional", "inline", "inline_burgers", "fallback"}

\* the solvers of the Burgers equation
BurgersSolvers == {"traditional", "inline_burgers"}

\* wall-clock durations a result may carry
Durations == {Zero, One}

\* arguments a caller may pass; the solvers themselves check nothing
FDAlphas == {Zero, R(1, 16), R(1, 8), Half}
FDTimes == {Zero, One}
FDTagsIC == IC_TYPES \cup {"bogus"}
FDTagsBC == BC_TYPES \cup {"periodic"}

\* BurgersEquation.initial_condition
initial_condition(x) == sinusoidal(x)

\* BurgersEquation.boundary_conditions
boundary_conditions(bc_type) ==
    IF bc_type = "dirichlet"
    THEN [left |-> Zero, right |-> Zero]
    ELSE [left |-> "neumann", right |-> "neumann"]

\* the row assigned to u[0, :] by each solver, or <<>> when no branch matches
initial_row(solver, ic_type, x) ==
    CASE solver = "traditional" -> initial_condition(x)
      [] solver = "inline" -> gaussian(x)
      [] solver \in {"inline_burgers", "fallback"} -> sinusoidal(x)
      [] solver = "backend" /\ ic_type = "sinusoidal" -> sinusoidal(x)
      [] solver = "backend" /\ ic_type = "gaussian" -> gaussian(x)
      [] solver = "backend" /\ ic_type = "step" -> step(x)
      [] OTHER -> <<>>

assigns_initial_row(solver, ic_type) ==
    solver # "backend" \/ ic_type \in IC_TYPES

\* mutant: the sign of the diffusion term is flipped
heat_stencil_antidiffusion(prev, i, r) ==
    RSub(prev[i],
         RMul(r, RAdd(RSub(prev[i + 1], RMul(R(2, 1), prev[i])), prev[i - 1])))

\* mutant: the left neighbour is taken twice (a one-sided difference)
heat_stencil_one_sided(prev, i, r) ==
    RAdd(prev[i],
         RMul(r, RAdd(RSub(prev[i - 1], RMul(R(2, 1), prev[i])), prev[i - 1])))

\* FTCS stencil: u[n, i] + r * (u[n, i+1] - 2*u[n, i] + u[n, i-1])
heat_stencil(prev, i, r) ==
    RAdd(prev[i],
         RMul(r, RAdd(RSub(prev[i + 1], RMul(R(2, 1), prev[i])), prev[i - 1])))

\* mutant: u_x is the upwind difference (u[n, i] - u[n, i-1]) / dx
burgers_stencil_upwind(prev, i, nu, dx, dt) ==
    LET u_xx == RDiv(RAdd(RSub(prev[i + 1], RMul(R(2, 1), prev[i])), prev[i - 1]),
                     RMul(dx, dx))
        u_x == RDiv(RSub(prev[i], prev[i - 1]), dx)
    IN  RAdd(RSub(prev[i], RMul(RMul(dt, prev[i]), u_x)),
             RMul(RMul(nu, dt), u_xx))

\* Burgers stencil: u[n, i] - dt * u[n, i] * u_x + nu * dt * u_xx
burgers_stencil(prev, i, nu, dx, dt) ==
    LET u_xx == RDiv(RAdd(RSub(prev[i + 1], RMul(R(2, 1), prev[i])), prev[i - 1]),
                     RMul(dx, dx))
        u_x == RDiv(RSub(prev[i + 1], prev[i - 1]), RMul(R(2, 1), dx))
    IN  RAdd(RSub(prev[i], RMul(RMul(dt, prev[i]), u_x)),
             RMul(RMul(nu, dt), u_xx))

\* for i in range(1, nx - 1): the interior of row n+1 from row n
interior_update(solver, prev, next, c) ==
    [i \in 1..Len(next) |->
        IF i >= 2 /\ i <= c.nx - 1
        THEN IF solver \in BurgersSolvers
             THEN burgers_stencil(prev, i, c.alpha, c.dx, c.dt)
             ELSE heat_stencil(prev, i, c.r)
        ELSE next[i]]

\* u[n+1, k] = v
SetAt(res, k, v) ==
    IF ~res.ok THEN res
    ELSE IF PyIdx(k, Len(res.row)) = 0 THEN [ok |-> FALSE, row |-> res.row]
    ELSE [ok |-> TRUE, row |-> [res.row EXCEPT ![PyIdx(k, Len(res.row))] = v]]

\* u[n+1, k] = u[n+1, src]
CopyAt(res, k, src) ==
    IF ~res.ok THEN res
    ELSE IF PyIdx(src, Len(res.row)) = 0 THEN [ok |-> FALSE, row |-> res.row]
    ELSE SetAt(res, k, res.row[PyIdx(src, Len(res.row))])

\* mutant: the right end is copied from its neighbour instead of pinned
dirichlet_rows_copy_right(res) == CopyAt(SetAt(res, 0, Zero), -1, -2)

\* bc_type == "dirichlet": u[n+1, 0] = 0; u[n+1, -1] = 0
dirichlet_rows(res) == SetAt(SetAt(res, 0, Zero), -1, Zero)

\* mutant: the left end is pinned instead of copied
neumann_rows_pin_left(res) == CopyAt(SetAt(res, 0, Zero), -1, -2)

\* bc_type == "neumann": u[n+1, 0] = u[n+1, 1]; u[n+1, -1] = u[n+1, -2]
neumann_rows(res) == CopyAt(CopyAt(res, 0, 1), -1, -2)

\* mutant: the two ends swap their policies
mixed_rows_swapped(res) == SetAt(CopyAt(res, 0, 1), -1, Zero)

\* bc_type == "mixed": u[n+1, 0] = 0; u[n+1, -1] = u[n+1, -2]
mixed_rows(res) == CopyAt(SetAt(res, 0, Zero), -1, -2)

\* the boundary statements each solver executes on row n+1
apply_boundary(solver, bc_type, row) ==
    LET res == [ok |-> TRUE, row |-> row]
    IN  CASE solver = "traditional" ->
               SetAt(SetAt(res, 0, boundary_conditions("dirichlet").left),
                     -1, boundary_conditions("dirichlet").right)
          [] solver = "inline" -> neumann_rows(res)
          [] solver \in {"inline_burgers", "fallback"} ->
               SetAt(SetAt(res, 0, Zero), -1, Zero)
          [] solver = "backend" /\ bc_type = "dirichlet" -> dirichlet_rows(res)
          [] solver = "backend" /\ bc_type = "neumann" -> neumann_rows(res)
          [] solver = "backend" /\ bc_type = "mixed" -> mixed_rows(res)
          [] OTHER -> res

FDCall(solver, alpha, nx, nt, T, ic_type, bc_type) ==
    [solver |-> solver, alpha |-> alpha, nx |-> nx, nt |-> nt, T |-> T,
     ic_type |-> ic_type, bc_type |-> bc_type,
     pc |-> "call", n |-> 0, u |-> <<>>, x |-> <<>>, t |-> <<>>,
     dx |-> Zero, dt |-> Zero, r |-> Zero, error |-> "none",
     computation_time |-> Zero, first |-> None]

\* the policy in force for a call: the Burgers solvers and the fallback
\* solver always pin both ends, the inline heat solver always copies them
policy(c) ==
    CASE c.solver \in BurgersSolvers \cup {"fallback"} -> "dirichlet"
      [] c.solver = "inline" -> "neumann"
      [] OTHER -> c.bc_type

FDInit ==
    \E solver \in FDSolvers, alpha \in FDAlphas, nx \in 0..MaxNx,
       nt \in 0..MaxNt, T \in FDTimes, ic_type \in FDTagsIC, bc_type \in FDTagsBC :
        /\ solver # "backend" => ic_type = "sinusoidal" /\ bc_type = "dirichlet"
        \* the Burgers stencil squares the denominators at every step: after
        \* three steps the exact rationals leave TLC's 32-bit integers
        /\ solver \in BurgersSolvers => nt <= 3
        /\ fd = FDCall(solver, alpha, nx, nt, T, ic_type, bc_type)
        /\ core = IdleCore
        /\ IdleApp

\* everything before the time loop: step sizes, grids, allocation, row 0, r
setup(c) ==
    IF c.nx = 1 \/ c.nt = 1
    THEN [c EXCEPT !.pc = "raised", !.error = "ZeroDivisionError"]
    ELSE LET dx == RDiv(One, R(c.nx - 1, 1))
             dt == RDiv(c.T, R(c.nt - 1, 1))
             x == linspace(One, c.nx)
             t == linspace(c.T, c.nt)
             u0 == zeros(c.nt, c.nx)
         IN  IF assigns_initial_row(c.solver, c.ic_type) /\ c.nt = 0
             THEN [c EXCEPT !.pc = "raised", !.error = "IndexError",
                            !.dx = dx, !.dt = dt, !.x = x, !.t = t, !.u = u0]
             ELSE [c EXCEPT
                     !.pc = "loop", !.dx = dx, !.dt = dt, !.x = x, !.t = t,
                     !.u = IF assigns_initial_row(c.solver, c.ic_type)
                           THEN [u0 EXCEPT ![1] =
                                   initial_row(c.solver, c.ic_type, x)]
                           ELSE u0,
                     !.r = IF c.solver \in BurgersSolvers THEN Zero
                           ELSE RDiv(RMul(c.alpha, dt), RMul(dx, dx))]

\* mutant: both solvers work on one module-level field: the row the
\* analytical solver has already filled is the row the stencil reads
interior_shared_field(c) ==
    LET own == c.u[c.n + 1]
        prev == IF core.pc # "call" /\ core.i >= c.n + 1
                   /\ Len(core.u[c.n + 1]) = Len(own)
                THEN core.u[c.n + 1] ELSE own
    IN  [c EXCEPT !.pc = "boundary",
                  !.u[c.n + 2] = interior_update(c.solver, prev, c.u[c.n + 2], c)]

\* mutant: the update is made in place, into row n
interior_overwrites_row(c) ==
    [c EXCEPT !.pc = "boundary",
              !.u[c.n + 1] =
                  interior_update(c.solver, c.u[c.n + 1], c.u[c.n + 1], c)]

\* for i in range(1, nx - 1): the inner loop over the interior points
interior(c) ==
    [c EXCEPT !.pc = "boundary",
              !.u[c.n + 2] =
                  interior_update(c.solver, c.u[c.n + 1], c.u[c.n + 2], c)]

\* mutant: the boundary statements are applied to row n, not row n+1
boundary_on_current_row(c) ==
    LET res == apply_boundary(c.solver, c.bc_type, c.u[c.n + 1])
    IN  IF res.ok
        THEN [c EXCEPT !.pc = "loop", !.n = c.n + 1, !.u[c.n + 1] = res.row]
        ELSE [c EXCEPT !.pc = "raised", !.error = "IndexError"]

\* the boundary statements that close the body of the time loop
boundary(c) ==
    LET res == apply_boundary(c.solver, c.bc_type, c.u[c.n + 2])
    IN  IF res.ok
        THEN [c EXCEPT !.pc = "loop", !.n = c.n + 1, !.u[c.n + 2] = res.row]
        ELSE [c EXCEPT !.pc = "raised", !.error = "IndexError"]

\* a whole call, from its arguments to its return or its exception
RECURSIVE run(_)
run(c) ==
    CASE c.pc = "call" -> run(setup(c))
      [] c.pc = "loop" /\ c.n < c.nt - 1 -> run(interior(c))
      [] c.pc = "boundary" -> run(boundary(c))
      [] c.pc = "loop" /\ c.n >= c.nt - 1 -> [c EXCEPT !.pc = "returned"]
      [] OTHER -> c

solve_setup ==
    /\ fd.pc = "call"
    /\ fd' = setup(fd)
    /\ UNCHANGED others_fd

solve_interior ==
    /\ fd.pc = "loop"
    /\ fd.n < fd.nt - 1
    /\ fd' = interior(fd)
    /\ UNCHANGED others_fd

solve_boundary ==
    /\ fd.pc = "boundary"
    /\ fd' = boundary(fd)
    /\ UNCHANGED others_fd

\* the loop is exhausted: return u, x, t and the time the call took by the
\* wall clock, time.time() - start_time
solve_return ==
    /\ fd.pc = "loop"
    /\ fd.n >= fd.nt - 1
    /\ \E elapsed \in Durations :
          fd' = [fd EXCEPT !.pc = "returned", !.computation_time = elapsed]
    /\ UNCHANGED others_fd

\* what a call hands back: u, x, t, computation_time
Returned(c) ==
    [type |-> "result", u |-> c.u, x |-> c.x, t |-> c.t,
     computation_time |-> c.computation_time]

\* the caller keeps the result and calls the backend solver once more with
\* the same arguments
solve_again ==
    /\ fd.pc = "returned"
    /\ fd.solver = "backend"
    /\ IsNone(fd.first)
    /\ fd' = [FDCall(fd.solver, fd.alpha, fd.nx, fd.nt, fd.T,
                     fd.ic_type, fd.bc_type) EXCEPT !.first = Returned(fd)]
    /\ UNCHANGED others_fd

FDNext ==
    \/ solve_setup
    \/ solve_interior
    \/ solve_boundary
    \/ solve_return
    \/ solve_again

SpecFD == FDInit /\ [][FDNext]_vars

(***************************************************************************)
(* Equation classes, analytical solver, comparison utilities               *)
(***************************************************************************)
\* HeatEquation.__init__(alpha, L): stores its arguments, checks nothing
HeatEquation(alpha, L) ==
    [error |-> "none", alpha |-> alpha, L |-> L]

\* BurgersEquation.__init__(nu, L): stores its arguments, checks nothing
BurgersEquation(nu, L) ==
    [error |-> "none", nu |-> nu, L |-> L]

\* the attributes a HeatEquation object answers to
HeatEquationMethods ==
    {"analytical_solution_dirichlet", "analytical_solution_general",
     "get_equation_details"}

\* n_terms, the default number of modes summed
n_terms == 20

\* the Fourier coefficient of mode n for the sin(pi*x/L) initial condition
B(n) == IF n = 1 THEN One ELSE Zero

\* solution += B_n * sin(n*pi*x/L) * exp(-alpha * (n*pi/L)^2 * t), for the
\* modes 1..n
RECURSIVE mode_sum(_, _, _, _)
mode_sum(equation, x, t, n) ==
    IF n = 0 THEN Zero
    ELSE LET lambda_n == RDiv(RMul(R(n * n, 1), PiSquared),
                              RMul(equation.L, equation.L))
             solution == mode_sum(equation, x, t, n - 1)
             term == RMul(RMul(B(n), sin_n_pi(n, RDiv(x, equation.L))),
                          exp_neg(RMul(RMul(equation.alpha, lambda_n), t)))
         IN  \* adding 0 leaves the partial sum as it is; the test also has
             \* the partial sum evaluated before the next mode is added
             IF term = Zero THEN solution ELSE RAdd(solution, term)

\* HeatEquation.analytical_solution_dirichlet(x, t) at one point x
analytical_solution_dirichlet(equation, x, t) ==
    mode_sum(equation, x, t, n_terms)

\* backend AnalyticalSolver.solve(alpha, nx, nt, T): builds a HeatEquation
\* and asks it for analytical_solution(x, time) once per time level
backend_AnalyticalSolver_solve(alpha, nx, nt, T) ==
    LET equation == HeatEquation(alpha, One)
        x == linspace(equation.L, nx)
        t == linspace(T, nt)
    IN  IF nt >= 1 /\ "analytical_solution" \notin HeatEquationMethods
        THEN [error |-> "AttributeError"]
        ELSE [error |-> "none", u |-> zeros(nt, nx), x |-> x, t |-> t]

\* core AnalyticalSolver.solve: the profile chosen by ic_type (sinusoidal
\* when the tag is not recognised), damped by exp(-alpha * pi^2 * t);
\* bc_type is accepted and never read
AnalyticalSolver_solve(alpha, nx, nt, T, ic_type, bc_type) ==
    LET x == linspace(One, nx)
        t == linspace(T, nt)
        initial == CASE ic_type = "sinusoidal" -> sinusoidal(x)
                     [] ic_type = "gaussian" -> gaussian(x)
                     [] ic_type = "step" -> step(x)
                     [] OTHER -> sinusoidal(x)
    IN  [error |-> "none",
         u |-> [k \in 1..nt |->
                  [i \in 1..nx |->
                      RMul(initial[i],
                           exp_neg(RMul(RMul(alpha, PiSquared), t[k])))]],
         x |-> x, t |-> t]

\* backend FiniteDifferenceSolver.solve as one call
FiniteDifferenceSolver_solve(alpha, nx, nt, T, ic_type, bc_type) ==
    run(FDCall("backend", alpha, nx, nt, T, ic_type, bc_type))

\* mutant: a tolerance relative to b only, strict
allclose_relative_only(a, b) ==
    \A i \in 1..Len(a) :
        RLt(RAbs(RSub(a[i], b[i])), RMul(R(1, 100000), RAbs(b[i])))

\* np.allclose(a, b) for arrays of one length: |a - b| <= atol + rtol * |b|
allclose(a, b) ==
    \A i \in 1..Len(a) :
        RLe(RAbs(RSub(a[i], b[i])),
            RAdd(R(1, 100000000), RMul(R(1, 100000), RAbs(b[i]))))

\* np.interp(q, xp, fp) at one point q: linear between the two sample points
\* that bracket q, the end values outside them
interp_at(q, xp, fp) ==
    IF RLe(q, xp[1]) THEN fp[1]
    ELSE IF RLe(xp[Len(xp)], q) THEN fp[Len(xp)]
    ELSE LET j == CHOOSE k \in 1..(Len(xp) - 1) :
                      RLe(xp[k], q) /\ RLt(q, xp[k + 1])
         IN  RAdd(fp[j],
                  RMul(RDiv(RSub(fp[j + 1], fp[j]), RSub(xp[j + 1], xp[j])),
                       RSub(q, xp[j])))

\* mutant: the last query point is left out
interp_drop_last(xq, xp, fp) ==
    [i \in 1..(Len(xq) - 1) |-> interp_at(xq[i], xp, fp)]

interp(xq, xp, fp) == [i \in 1..Len(xq) |-> interp_at(xq[i], xp, fp)]

\* mutant: the common grid takes the coarser resolution
interpolate_to_coarse_grid(u1, x1, u2, x2) ==
    LET common_nx == IF Len(x1) <= Len(x2) THEN Len(x1) ELSE Len(x2)
        common_x == linspace(One, common_nx)
    IN  [u1_interp |-> interp(common_x, x1, u1),
         u2_interp |-> interp(common_x, x2, u2),
         common_x |-> common_x]

\* the finer of the two resolutions, both rows interpolated onto it
interpolate_to_common_grid(u1, x1, u2, x2) ==
    LET common_nx == Max(Len(x1), Len(x2))
        common_x == linspace(One, common_nx)
    IN  [u1_interp |-> interp(common_x, x1, u1),
         u2_interp |-> interp(common_x, x2, u2),
         common_x |-> common_x]

\* the last row of a field: data['u'][-1, :]
last_row(u) == u[Len(u)]

\* mutant: the signed difference, np.abs forgotten
abs_difference_signed(u_numerical, u_analytical) ==
    [i \in 1..Len(u_numerical) |-> RSub(u_numerical[i], u_analytical[i])]

\* np.abs(u_numerical - u_analytical)
abs_difference(u_numerical, u_analytical) ==
    [i \in 1..Len(u_numerical) |-> RAbs(RSub(u_numerical[i], u_analytical[i]))]

\* len(x_analytical) == len(x_numerical) and np.allclose(...): np.allclose
\* raises ValueError on arrays that do not broadcast, and is not evaluated
\* when the lengths differ
grids_match_test(x_analytical, x_numerical) ==
    IF Len(x_analytical) = Len(x_numerical)
    THEN [raised |-> FALSE, value |-> allclose(x_analytical, x_numerical)]
    ELSE [raised |-> FALSE, value |-> FALSE]

compare_solutions(analytical_data, numerical_data) ==
    IF IsNone(analytical_data) \/ IsNone(numerical_data)
    THEN None
    ELSE IF grids_match_test(analytical_data.x, numerical_data.x).raised
    THEN [type |-> "ValueError"]
    ELSE LET u_analytical == last_row(analytical_data.u)
             x_analytical == analytical_data.x
             u_numerical == last_row(numerical_data.u)
             x_numerical == numerical_data.x
             grids_match == grids_match_test(x_analytical, x_numerical).value
         IN  IF grids_match
             THEN [type |-> "comparison",
                   error |-> abs_difference(u_numerical, u_analytical),
                   common_x |-> x_analytical, grids_match |-> TRUE]
             ELSE LET g == interpolate_to_common_grid(
                               u_analytical, x_analytical, u_numerical, x_numerical)
                  IN  [type |-> "comparison",
                       error |-> abs_difference(g.u2_interp, g.u1_interp),
                       common_x |-> g.common_x, grids_match |-> FALSE]

\* the arrays a call of compare_solutions is handed: the field and the grid of
\* each argument, as the caller still holds them
Buffers(analytical_data, numerical_data) ==
    [analytical_u |-> analytical_data.u, analytical_x |-> analytical_data.x,
     numerical_u |-> numerical_data.u, numerical_x |-> numerical_data.x]

\* what a name refers to: a new array, or a row of one of the buffers
\* (data['u'][-1, :] is a view, not a copy)
Fresh == [buffer |-> "fresh", row |-> 0]

LastRowView(buffer, u) == [buffer |-> buffer, row |-> Len(u)]

\* writing the elements of an array: a view writes through to its buffer
Store(buffers, ref, value) ==
    IF ref.buffer = "fresh" THEN buffers
    ELSE [buffers EXCEPT ![ref.buffer][ref.row] = value]

\* mutant: the difference is accumulated in place, u_numerical -= u_analytical
difference_in_place(minuend, subtrahend) == minuend

\* where np.abs(p - q) puts its elements: both operators allocate their result
difference_target(minuend, subtrahend) == Fresh

\* the caller's arrays after compare_solutions(analytical_data, numerical_data)
\* has returned; the only arrays the function fills are the error and, in
\* the interpolated branch, the results of np.linspace and np.interp
buffers_after_compare(analytical_data, numerical_data) ==
    LET before == Buffers(analytical_data, numerical_data)
        res == compare_solutions(analytical_data, numerical_data)
    IN  IF res.type # "comparison" THEN before
        ELSE IF res.grids_match
        THEN Store(before,
                   difference_target(
                       LastRowView("numerical_u", numerical_data.u),
                       LastRowView("analytical_u", analytical_data.u)),
                   res.error)
        ELSE Store(before, difference_target(Fresh, Fresh), res.error)

RECURSIVE SumSeq(_, _)
SumSeq(q, k) == IF k = 0 THEN Zero ELSE RAdd(SumSeq(q, k - 1), q[k])

RECURSIVE MaxSeq(_, _)
MaxSeq(q, k) ==
    IF k = 1 THEN q[1]
    ELSE LET m == MaxSeq(q, k - 1) IN IF RLt(m, q[k]) THEN q[k] ELSE m

\* the integer square root of n, lo * lo <= n < hi * hi
RECURSIVE isqrt(_, _, _)
isqrt(n, lo, hi) ==
    IF hi - lo <= 1 THEN lo
    ELSE LET mid == (lo + hi) \div 2
         IN  IF mid * mid <= n THEN isqrt(n, mid, hi) ELSE isqrt(n, lo, mid)

\* np.sqrt on a non-negative rational: exact on squares of rationals, rounded
\* towards the integer roots of numerator and denominator elsewhere
sqrt(a) == R(isqrt(a[1], 0, 46341), Max(1, isqrt(a[2], 0, 46341)))

\* np.mean
mean(q) == RDiv(SumSeq(q, Len(q)), R(Len(q), 1))

\* ComparisonController.calculate_comparison_metrics on a successful
\* comparison: max, mean and root-mean-square of the error, and the speedup
calculate_comparison_metrics(error, analytical_time, numerical_time) ==
    [type |-> "metrics",
     max_error |-> MaxSeq(error, Len(error)),
     mean_error |-> mean(error),
     rmse |-> sqrt(mean([i \in 1..Len(error) |-> RMul(error[i], error[i])])),
     analytical_time |-> analytical_time,
     numerical_time |-> numerical_time,
     speedup |-> IF RLt(Zero, analytical_time)
                 THEN RDiv(numerical_time, analytical_time)
                 ELSE Zero]

(***************************************************************************)
(* Direct calls of the stateless core (SpecCore)                           *)
(***************************************************************************)
CoreAlphas == {R(-1, 1), Zero, R(1, 8), Half}
CoreLengths == {R(-1, 1), Zero, One, R(2, 1)}
CoreTimes == {Zero, One}

\* the solve results handed to the comparison: analytical and
\* finite-difference runs of the same equation on grids of 2..MaxNx points,
\* one time step each (the error is squared, so the rows are kept short of
\* TLC's 32-bit integers)
PoolIC == {"sinusoidal", "step"}
PoolBC == {"dirichlet", "neumann"}

AnalyticalPool ==
    {[u |-> s.u, x |-> s.x, time |-> d, type |-> "analytical"] :
        s \in {AnalyticalSolver_solve(R(1, 8), nx, 2, One, ic, "dirichlet") :
                  nx \in 2..MaxNx, ic \in PoolIC},
        d \in Durations}

NumericalPool ==
    {[u |-> s.u, x |-> s.x, time |-> d, type |-> "numerical"] :
        s \in {FiniteDifferenceSolver_solve(R(1, 8), nx, 2, One, ic, bc) :
                  nx \in 2..MaxNx, ic \in PoolIC, bc \in PoolBC},
        d \in Durations}

ResultPool == AnalyticalPool \cup NumericalPool \cup {None}

CoreInit ==
    /\ core = [op |-> "none"]
    /\ fd = IdleFD
    /\ IdleApp

construct_heat_equation ==
    /\ core.op = "none"
    /\ \E alpha \in CoreAlphas, L \in CoreLengths :
        /\ core' = [op |-> "HeatEquation", alpha |-> alpha, L |-> L,
                    result |-> HeatEquation(alpha, L)]
        /\ UNCHANGED others_core

construct_burgers_equation ==
    /\ core.op = "none"
    /\ \E nu \in CoreAlphas, L \in CoreLengths :
        /\ core' = [op |-> "BurgersEquation", alpha |-> nu, L |-> L,
                    result |-> BurgersEquation(nu, L)]
        /\ UNCHANGED others_core

analytical_solve ==
    /\ core.op = "none"
    /\ \E alpha \in FDAlphas, nx \in 0..MaxNx, nt \in 0..MaxNt, T \in CoreTimes,
       ic_type \in FDTagsIC, bc_type \in FDTagsBC :
        /\ core' = [op |-> "AnalyticalSolver.solve",
                    alpha |-> alpha, nx |-> nx, nt |-> nt, T |-> T,
                    ic_type |-> ic_type, bc_type |-> bc_type,
                    result |-> AnalyticalSolver_solve(alpha, nx, nt, T,
                                                      ic_type, bc_type)]
        /\ UNCHANGED others_core

\* HeatEquation(alpha, L).analytical_solution_dirichlet(x, t) on the grid
\* np.linspace(0, L, nx)
heat_analytical_solution_dirichlet ==
    /\ core.op = "none"
    /\ \E alpha \in {R(1, 8), Half}, L \in {One, R(2, 1)}, nx \in 2..MaxNx,
          t \in CoreTimes :
        LET equation == HeatEquation(alpha, L)
            x == linspace(L, nx)
        IN  /\ core' = [op |-> "analytical_solution_dirichlet",
                        alpha |-> alpha, L |-> L, nx |-> nx, t |-> t, x |-> x,
                        result |-> [i \in 1..nx |->
                            analytical_solution_dirichlet(equation, x[i], t)]]
            /\ UNCHANGED others_core

\* backend.solvers.analytical.AnalyticalSolver.solve(alpha, nx, nt, T)
backend_analytical_solve ==
    /\ core.op = "none"
    /\ \E alpha \in FDAlphas, nx \in 0..MaxNx, nt \in 0..MaxNt, T \in CoreTimes :
        /\ core' = [op |-> "backend.AnalyticalSolver.solve",
                    alpha |-> alpha, nx |-> nx, nt |-> nt, T |-> T,
                    result |-> backend_AnalyticalSolver_solve(alpha, nx, nt, T)]
        /\ UNCHANGED others_core

compare ==
    /\ core.op = "none"
    /\ \E a \in ResultPool, b \in ResultPool :
        /\ core' = [op |-> "compare_solutions", a |-> a, b |-> b,
                    result |-> compare_solutions(a, b), metrics |-> None,
                    after |-> IF IsNone(a) \/ IsNone(b) THEN None
                              ELSE buffers_after_compare(a, b)]
        /\ UNCHANGED others_core

\* the metrics of the comparison just made, when it produced an error array
comparison_metrics ==
    /\ core.op = "compare_solutions"
    /\ core.result.type = "comparison"
    /\ IsNone(core.metrics)
    /\ core' = [core EXCEPT !.metrics =
                   calculate_comparison_metrics(core.result.error,
                                                core.a.time, core.b.time)]
    /\ UNCHANGED others_core

\* the caller drops the result: nothing outlives a call
discard ==
    /\ core.op # "none"
    /\ core' = [op |-> "none"]
    /\ UNCHANGED others_core

CoreNext ==
    \/ discard
    \/ construct_heat_equation
    \/ construct_burgers_equation
    \/ analytical_solve
    \/ heat_analytical_solution_dirichlet
    \/ backend_analytical_solve
    \/ compare
    \/ comparison_metrics

SpecCore == CoreInit /\ [][CoreNext]_vars

(***************************************************************************)
(* The two solvers called side by side (SpecPar): the finite-difference    *)
(* call advances through fd as above, the analytical call through core,    *)
(* one statement group at a time, in any interleaving                      *)
(***************************************************************************)
AnalyticalCall(alpha, nx, nt, T, ic_type, bc_type) ==
    [op |-> "AnalyticalSolver.solve, stepwise", pc |-> "call", i |-> 0,
     alpha |-> alpha, nx |-> nx, nt |-> nt, T |-> T,
     ic_type |-> ic_type, bc_type |-> bc_type,
     u |-> <<>>, x |-> <<>>, t |-> <<>>, initial |-> <<>>,
     computation_time |-> Zero]

\* everything before the loop: grids, allocation, the initial profile
analytical_setup(c) ==
    LET x == linspace(One, c.nx)
    IN  [c EXCEPT !.pc = "loop", !.x = x, !.t = linspace(c.T, c.nt),
                  !.u = zeros(c.nt, c.nx),
                  !.initial = CASE c.ic_type = "sinusoidal" -> sinusoidal(x)
                                [] c.ic_type = "gaussian" -> gaussian(x)
                                [] c.ic_type = "step" -> step(x)
                                [] OTHER -> sinusoidal(x)]

\* one pass of the loop: u[i, :] = initial * exp(-alpha * pi^2 * time_val)
analytical_row(c) ==
    [c EXCEPT !.i = c.i + 1,
              !.u[c.i + 1] =
                  [j \in 1..c.nx |->
                      RMul(c.initial[j],
                           exp_neg(RMul(RMul(c.alpha, PiSquared), c.t[c.i + 1])))]]

ParInit ==
    \E alpha \in {R(1, 8), Half}, ic_type \in IC_TYPES, bc_type \in BC_TYPES,
       nx_analytical \in 2..MaxNx, nt_analytical \in 2..MaxNt,
       nx_numerical \in 2..MaxNx, nt_numerical \in 2..MaxNt :
        /\ fd = FDCall("backend", alpha, nx_numerical, nt_numerical, One,
                       ic_type, bc_type)
        /\ core = AnalyticalCall(alpha, nx_analytical, nt_analytical, One,
                                 ic_type, bc_type)
        /\ IdleApp

par_analytical_setup ==
    /\ core.pc = "call"
    /\ core' = analytical_setup(core)
    /\ UNCHANGED others_core

par_analytical_row ==
    /\ core.pc = "loop"
    /\ core.i < core.nt
    /\ core' = analytical_row(core)
    /\ UNCHANGED others_core

par_analytical_return ==
    /\ core.pc = "loop"
    /\ core.i >= core.nt
    /\ \E elapsed \in Durations :
          core' = [core EXCEPT !.pc = "returned", !.computation_time = elapsed]
    /\ UNCHANGED others_core

ParNext ==
    \/ solve_setup
    \/ solve_interior
    \/ solve_boundary
    \/ solve_return
    \/ par_analytical_setup
    \/ par_analytical_row
    \/ par_analytical_return

SpecPar == ParInit /\ [][ParNext]_vars

(***************************************************************************)
(* Validation and solver services                                          *)
(***************************************************************************)
\* Python's list.extend
Extend(a, b) == a \o b

validate_physical_parameters(alpha, T) ==
    Extend(IF RLe(alpha, Zero)
           THEN <<"Thermal diffusivity must be positive">>
           ELSE IF RLt(One, alpha)
           THEN <<"Thermal diffusivity is unusually large">>
           ELSE <<>>,
           IF RLe(T, Zero)
           THEN <<"Final time must be positive">>
           ELSE IF RLt(R(100, 1), T)
           THEN <<"Final time is unusually large">>
           ELSE <<>>)

\* mutant: the lower limits are off by one
validate_grid_parameters_off_by_one(nx, nt) ==
    Extend(IF nx < 1
           THEN <<"Spatial points must be at least 2">>
           ELSE IF nx > 10000
           THEN <<"Spatial points too large">>
           ELSE <<>>,
           IF nt < 1
           THEN <<"Time steps must be at least 2">>
           ELSE IF nt > 10000
           THEN <<"Time steps too large">>
           ELSE <<>>)

validate_grid_parameters(nx, nt) ==
    Extend(IF nx < 2
           THEN <<"Spatial points must be at least 2">>
           ELSE IF nx > 10000
           THEN <<"Spatial points too large">>
           ELSE <<>>,
           IF nt < 2
           THEN <<"Time steps must be at least 2">>
           ELSE IF nt > 10000
           THEN <<"Time steps too large">>
           ELSE <<>>)

validate_conditions(ic_type, bc_type) ==
    Extend(IF ic_type \notin {"sinusoidal", "gaussian", "step"}
           THEN <<"Invalid initial condition type">>
           ELSE <<>>,
           IF bc_type \notin {"dirichlet", "neumann", "mixed"}
           THEN <<"Invalid boundary condition type">>
           ELSE <<>>)

validate_all_parameters(alpha, T, ic_type, bc_type, nx_analytical, nt_analytical, nx_numerical, nt_numerical) ==
    Extend(Extend(Extend(validate_physical_parameters(alpha, T),
                         validate_conditions(ic_type, bc_type)),
                  validate_grid_parameters(nx_analytical, nt_analytical)),
           validate_grid_parameters(nx_numerical, nt_numerical))

\* NumericalService.validate_parameters on a params dict that has all its
\* keys: the four range checks, then the CFL check, whose step sizes divide
\* by nx - 1 and nt - 1
validate_parameters(params) ==
    LET ranges ==
            Extend(Extend(IF RLe(params.alpha, Zero)
                          THEN <<"Alpha must be positive">> ELSE <<>>,
                          IF params.nx < 2
                          THEN <<"nx must be at least 2">> ELSE <<>>),
                   Extend(IF params.nt < 2
                          THEN <<"nt must be at least 2">> ELSE <<>>,
                          IF RLe(params.T, Zero)
                          THEN <<"T must be positive">> ELSE <<>>))
    IN  IF params.nx = 1 \/ params.nt = 1
        THEN [raised |-> "ZeroDivisionError", errors |-> ranges]
        ELSE LET dx == RDiv(One, R(params.nx - 1, 1))
                 dt == RDiv(params.T, R(params.nt - 1, 1))
                 cfl == RDiv(RMul(params.alpha, dt), RMul(dx, dx))
             IN  [raised |-> "none",
                  errors |-> IF RLt(Half, cfl)
                             THEN Extend(ranges, <<"CFL condition violated">>)
                             ELSE ranges]

\* FallbackAnalyticalSolver.solve(alpha, nx, nt, T, **kwargs): the damped
\* sine, whatever conditions the keywords name
FallbackAnalyticalSolver_solve(alpha, nx, nt, T) ==
    LET x == linspace(One, nx)
        t == linspace(T, nt)
    IN  [error |-> "none",
         u |-> [k \in 1..nt |->
                  [i \in 1..nx |->
                      RMul(sin_pi(x[i]),
                           exp_neg(RMul(RMul(alpha, PiSquared), t[k])))]],
         x |-> x, t |-> t]

\* FallbackNumericalSolver.solve(alpha, nx, nt, T, **kwargs) as one call
FallbackNumericalSolver_solve(alpha, nx, nt, T) ==
    run(FDCall("fallback", alpha, nx, nt, T, "sinusoidal", "dirichlet"))

\* _load_solver of both services: the imported class and available = True,
\* or, on ImportError, available = False and the fallback class
load_solver(import_succeeds) ==
    [available |-> import_succeeds,
     solver |-> IF import_succeeds THEN "imported" ELSE "fallback"]

\* the result of compute_solution after self.solver.solve(**parameters)
\* has returned
analytical_result(s, params, comp_time) ==
    [success |-> TRUE, error |-> "None", called |-> TRUE,
     data |-> [type |-> "analytical", u |-> s.u, x |-> s.x, t |-> s.t,
               time |-> comp_time, params |-> params]]

\* AnalyticalService.compute_solution
analytical_compute_solution(available, params, comp_time) ==
    IF ~load_solver(available).available
    THEN [success |-> FALSE, error |-> "Analytical solver not available",
          called |-> FALSE]
    ELSE IF load_solver(available).solver = "imported"
    THEN analytical_result(
             AnalyticalSolver_solve(params.alpha, params.nx, params.nt,
                                    params.T, params.ic_type, params.bc_type),
             params, comp_time)
    ELSE analytical_result(
             FallbackAnalyticalSolver_solve(params.alpha, params.nx,
                                            params.nt, params.T),
             params, comp_time)

\* the result of compute_solution after self.solver.solve(**parameters)
\* has returned or raised: an exception is caught and reported as a failure
numerical_result(s, params, comp_time) ==
    IF s.pc = "raised"
    THEN [success |-> FALSE, error |-> s.error, called |-> TRUE]
    ELSE [success |-> TRUE, error |-> "None", called |-> TRUE,
          data |-> [type |-> "numerical", u |-> s.u, x |-> s.x,
                    t |-> s.t, time |-> comp_time, params |-> params]]

\* NumericalService.compute_solution
numerical_compute_solution(available, params, comp_time) ==
    IF ~load_solver(available).available
    THEN [success |-> FALSE, error |-> "Numerical solver not available",
          called |-> FALSE]
    ELSE IF load_solver(available).solver = "imported"
    THEN numerical_result(
             FiniteDifferenceSolver_solve(params.alpha, params.nx, params.nt,
                                          params.T, params.ic_type,
                                          params.bc_type),
             params, comp_time)
    ELSE numerical_result(
             FallbackNumericalSolver_solve(params.alpha, params.nx,
                                           params.nt, params.T),
             params, comp_time)

(***************************************************************************)
(* Session state                                                           *)
(***************************************************************************)
SessionKeys == {"analytical_data", "numerical_data", "current_params"}

EmptyDict == [type |-> "dict"]

\* st.session_state.<key> = value
SetKey(s, key, value) ==
    [k \in DOMAIN s \cup {key} |-> IF k = key THEN value ELSE s[k]]

initialize_session_state(s) ==
    [k \in DOMAIN s \cup SessionKeys |->
        IF k \in DOMAIN s THEN s[k]
        ELSE IF k = "current_params" THEN EmptyDict ELSE None]

clear_analytical(s) == SetKey(s, "analytical_data", None)

\* mutant: the handler of Clear Numerical empties the analytical slot
clear_numerical_wrong_slot(s) == SetKey(s, "analytical_data", None)

clear_numerical(s) == SetKey(s, "numerical_data", None)

\* st.session_state.clear()
clear_all(s) == <<>>

store_analytical_solution(s, data) ==
    SetKey(s, "analytical_data",
           [type |-> "analytical", u |-> data.u, x |-> data.x, t |-> data.t,
            time |-> data.time, params |-> data.params])

\* mutant: a record that replaces another keeps the older record's params
store_numerical_solution_stale_params(s, data) ==
    SetKey(s, "numerical_data",
           [type |-> "numerical", u |-> data.u, x |-> data.x, t |-> data.t,
            time |-> data.time,
            params |-> IF IsNone(s["numerical_data"]) THEN data.params
                       ELSE s["numerical_data"].params])

store_numerical_solution(s, data) ==
    SetKey(s, "numerical_data",
           [type |-> "numerical", u |-> data.u, x |-> data.x, t |-> data.t,
            time |-> data.time, params |-> data.params])

\* mutant: both solution types read the numerical slot
get_solution_data_one_slot(s, solution_type) ==
    IF solution_type \notin {"analytical", "numerical"} THEN None
    ELSE IF "numerical_data" \notin DOMAIN s THEN [type |-> "AttributeError"]
    ELSE s["numerical_data"]

\* get_solution_data: reading a missing key raises AttributeError
get_solution_data(s, solution_type) ==
    LET key == IF solution_type = "analytical" THEN "analytical_data"
               ELSE "numerical_data"
    IN  IF solution_type \notin {"analytical", "numerical"} THEN None
        ELSE IF key \notin DOMAIN s THEN [type |-> "AttributeError"]
        ELSE s[key]

(***************************************************************************)
(* The Streamlit script (interfaces/streamlit/app.py) and its controllers  *)
(***************************************************************************)
\* widget values a script run may be started with; the controllers validate
\* them themselves
AppAlphas == {Zero, R(1, 8), R(2, 1)}
AppTimes == {Zero, One}
AppTagsIC == {"sinusoidal", "bogus"}
AppTagsBC == {"dirichlet", "periodic"}
AppNx == {1, 3, MaxNx}
AppNt == {1, 2}
Buttons == {"none", "run_analytical", "run_numerical",
            "clear_analytical", "clear_numerical", "clear_all"}

Sidebar(button, alpha, T, ic_type, bc_type, nxa, nta, nxn, ntn) ==
    [button |-> button, alpha |-> alpha, T |-> T,
     ic_type |-> ic_type, bc_type |-> bc_type,
     nx_analytical |-> nxa, nt_analytical |-> nta,
     nx_numerical |-> nxn, nt_numerical |-> ntn]

DefaultSidebar ==
    Sidebar("none", R(1, 8), One, "sinusoidal", "dirichlet", 3, 2, 3, 2)

Show(kind, text) == [kind |-> kind, text |-> text]

ShowAll(kind, texts) == [i \in 1..Len(texts) |-> Show(kind, texts[i])]

Invoked(service, params) == [kind |-> "solve", text |-> service, params |-> params]

AppInit ==
    /\ session = <<>>
    /\ svc \in [analytical : BOOLEAN, numerical : BOOLEAN]
    /\ ui = [pc |-> "idle", sidebar_data |-> DefaultSidebar, shown |-> <<>>]
    /\ fd = IdleFD
    /\ core = IdleCore

\* the user moves a widget or presses one button: the script is run again
interact ==
    /\ ui.pc = "idle"
    /\ \E button \in Buttons, alpha \in AppAlphas, T \in AppTimes,
          ic_type \in AppTagsIC, bc_type \in AppTagsBC,
          nxa \in AppNx, nta \in AppNt, nxn \in AppNx, ntn \in AppNt :
        \* the widget values are read by the two run handlers only
        /\ button \notin {"run_analytical", "run_numerical"} =>
              Sidebar(button, alpha, T, ic_type, bc_type, nxa, nta, nxn, ntn)
                  = [DefaultSidebar EXCEPT !.button = button]
        /\ ui' = [pc |-> "start",
                  sidebar_data |-> Sidebar(button, alpha, T, ic_type, bc_type,
                                           nxa, nta, nxn, ntn),
                  shown |-> <<>>]
    /\ UNCHANGED <<fd, core, session, svc>>

\* the top of the script: initialize_session_state, the services' banner
script_start ==
    /\ ui.pc = "start"
    /\ session' = initialize_session_state(session)
    /\ ui' = [ui EXCEPT !.pc = "buttons",
                        !.shown = <<IF svc.analytical /\ svc.numerical
                                    THEN Show("success", "All services initialized")
                                    ELSE Show("warning", "Some services using fallback")>>]
    /\ UNCHANGED <<fd, core, svc>>

\* mutant: st.rerun() is missing, the script goes on to the dashboard
Rerun_missing == [ui EXCEPT !.pc = "dashboard"]

\* st.rerun(): the run stops and the script starts again, no button pressed
Rerun == [ui EXCEPT !.pc = "start", !.sidebar_data.button = "none"]

handle_clear_analytical ==
    /\ ui.pc = "buttons"
    /\ ui.sidebar_data.button = "clear_analytical"
    /\ session' = clear_analytical(session)
    /\ ui' = Rerun
    /\ UNCHANGED <<fd, core, svc>>

handle_clear_numerical ==
    /\ ui.pc = "buttons"
    /\ ui.sidebar_data.button = "clear_numerical"
    /\ session' = clear_numerical(session)
    /\ ui' = Rerun
    /\ UNCHANGED <<fd, core, svc>>

handle_clear_all ==
    /\ ui.pc = "buttons"
    /\ ui.sidebar_data.button = "clear_all"
    /\ session' = clear_all(session)
    /\ ui' = Rerun
    /\ UNCHANGED <<fd, core, svc>>

Validation(sd) ==
    validate_all_parameters(sd.alpha, sd.T, sd.ic_type, sd.bc_type,
                            sd.nx_analytical, sd.nt_analytical,
                            sd.nx_numerical, sd.nt_numerical)

Params(sd, nx, nt) ==
    [alpha |-> sd.alpha, T |-> sd.T, ic_type |-> sd.ic_type,
     bc_type |-> sd.bc_type, nx |-> nx, nt |-> nt]

\* mutant: the handler empties its slot before it validates and solves, so
\* a run that fails leaves the slot empty
run_analytical_simulation_clears_first ==
    /\ ui.pc = "buttons"
    /\ ui.sidebar_data.button = "run_analytical"
    /\ LET sd == ui.sidebar_data
           errors == Validation(sd)
           params == Params(sd, sd.nx_analytical, sd.nt_analytical)
       IN  \E comp_time \in Durations :
              LET result == analytical_compute_solution(svc.analytical,
                                                        params, comp_time)
              IN  IF errors = <<>> /\ result.success
                  THEN /\ session' = store_analytical_solution(session,
                                                               result.data)
                       /\ ui' = [ui EXCEPT !.pc = "dashboard",
                                    !.shown = @ \o
                                      <<Invoked("analytical", params),
                                        Show("success", "Analytical solution computed")>>]
                  ELSE /\ session' = clear_analytical(session)
                       /\ ui' = [ui EXCEPT !.pc = "dashboard",
                                    !.shown = @ \o
                                      <<Show("error", "Analytical simulation failed")>>]
    /\ UNCHANGED <<fd, core, svc>>

run_analytical_simulation ==
    /\ ui.pc = "buttons"
    /\ ui.sidebar_data.button = "run_analytical"
    /\ LET sd == ui.sidebar_data
           errors == Validation(sd)
           params == Params(sd, sd.nx_analytical, sd.nt_analytical)
       IN  IF errors # <<>>
           THEN /\ ui' = [ui EXCEPT !.pc = "dashboard",
                             !.shown = @ \o ShowAll("error", errors)]
                /\ UNCHANGED session
           ELSE \E comp_time \in Durations :
                  LET result == analytical_compute_solution(svc.analytical,
                                                            params, comp_time)
                      calls == IF result.called
                               THEN <<Invoked("analytical", params)>> ELSE <<>>
                  IN  IF result.success
                      THEN /\ session' = store_analytical_solution(session,
                                                                   result.data)
                           /\ ui' = [ui EXCEPT !.pc = "dashboard",
                                        !.shown = @ \o calls \o
                                          <<Show("success", "Analytical solution computed")>>]
                      ELSE /\ UNCHANGED session
                           /\ ui' = [ui EXCEPT !.pc = "dashboard",
                                        !.shown = @ \o calls \o
                                          <<Show("error", result.error)>>]
    /\ UNCHANGED <<fd, core, svc>>

run_numerical_simulation ==
    /\ ui.pc = "buttons"
    /\ ui.sidebar_data.button = "run_numerical"
    /\ LET sd == ui.sidebar_data
           errors == Validation(sd)
           params == Params(sd, sd.nx_numerical, sd.nt_numerical)
       IN  IF errors # <<>>
           THEN /\ ui' = [ui EXCEPT !.pc = "dashboard",
                             !.shown = @ \o ShowAll("error", errors)]
                /\ UNCHANGED session
           ELSE LET numerical_errors == validate_parameters(params)
                IN  IF numerical_errors.raised # "none"
                    THEN \* the exception ends the script run
                         /\ ui' = [ui EXCEPT !.pc = "done",
                                      !.shown = @ \o
                                        <<Show("exception", numerical_errors.raised)>>]
                         /\ UNCHANGED session
                    ELSE \E comp_time \in Durations :
                      LET warnings == ShowAll("warning", numerical_errors.errors)
                          result == numerical_compute_solution(svc.numerical,
                                                               params, comp_time)
                          calls == IF result.called
                                   THEN <<Invoked("numerical", params)>> ELSE <<>>
                      IN  IF result.success
                          THEN /\ session' = store_numerical_solution(session,
                                                                      result.data)
                               /\ ui' = [ui EXCEPT !.pc = "dashboard",
                                            !.shown = @ \o warnings \o calls \o
                                              <<Show("success", "Numerical solution computed")>>]
                          ELSE /\ UNCHANGED session
                               /\ ui' = [ui EXCEPT !.pc = "dashboard",
                                            !.shown = @ \o warnings \o calls \o
                                              <<Show("error", result.error)>>]
    /\ UNCHANGED <<fd, core, svc>>

\* no button was pressed: the script goes straight to the dashboard
no_button ==
    /\ ui.pc = "buttons"
    /\ ui.sidebar_data.button = "none"
    /\ ui' = [ui EXCEPT !.pc = "dashboard"]
    /\ UNCHANGED <<fd, core, session, svc>>

\* ComparisonController.compare_solutions over the two stored results
controller_compare_solutions(s) ==
    LET analytical_data == get_solution_data(s, "analytical")
        numerical_data == get_solution_data(s, "numerical")
    IN  IF IsNone(analytical_data) \/ IsNone(numerical_data)
        THEN [success |-> FALSE,
              error |-> "Both analytical and numerical solutions required"]
        ELSE LET c == compare_solutions(analytical_data, numerical_data)
             IN  IF c.type = "comparison"
                 THEN [success |-> TRUE, error |-> "None",
                       data |-> [error |-> c.error, common_x |-> c.common_x,
                                 grids_match |-> c.grids_match,
                                 analytical_time |-> analytical_data.time,
                                 numerical_time |-> numerical_data.time]]
                 ELSE [success |-> FALSE, error |-> c.type]

\* the dashboard: the stored solutions, then the comparison and its metrics
display_dashboard ==
    /\ ui.pc = "dashboard"
    /\ LET comparison_result == controller_compare_solutions(session)
       IN  ui' = [ui EXCEPT !.pc = "done",
                     !.shown = @ \o
                        <<IF comparison_result.success
                          THEN [kind |-> "comparison", text |-> "available",
                                grids_match |-> comparison_result.data.grids_match,
                                metrics |-> calculate_comparison_metrics(
                                    comparison_result.data.error,
                                    comparison_result.data.analytical_time,
                                    comparison_result.data.numerical_time)]
                          ELSE Show("info", "Comparison not available")>>]
    /\ UNCHANGED <<fd, core, session, svc>>

\* the run is over; its page stays until the next interaction replaces it
end_of_run ==
    /\ ui.pc = "done"
    /\ ui' = [pc |-> "idle", sidebar_data |-> DefaultSidebar, shown |-> <<>>]
    /\ UNCHANGED <<fd, core, session, svc>>

Next ==
    \/ interact
    \/ end_of_run
    \/ script_start
    \/ handle_clear_analytical
    \/ handle_clear_numerical
    \/ handle_clear_all
    \/ run_analytical_simulation
    \/ run_numerical_simulation
    \/ no_button
    \/ display_dashboard

Spec == AppInit /\ [][Next]_vars

(***************************************************************************)
(* Properties of the finite-difference time loop (SpecFD)                  *)
(***************************************************************************)
\* rows 1..fd.n (Python numbering) have had both their interior and their
\* boundary statements executed
FDStepping == fd.pc \in {"loop", "boundary", "returned"}

CompletedRows == IF FDStepping THEN 1..fd.n ELSE {}

\* row k of the field, Python numbering
Row(k) == fd.u[k + 1]

\* C1: under the DIRICHLET policy every row produced by a time step has both
\* ends exactly 0, for every nx >= 2, every initial condition and every r.
C1_DirichletEndsPinned ==
    (policy(fd) = "dirichlet" /\ fd.nx >= 2) =>
        \A k \in CompletedRows :
            Row(k)[1] = Zero /\ Row(k)[fd.nx] = Zero

\* a step-profile run whose row 0 starts at 1 on the left, with a non-zero
\* interior in row 1 and the left end of row 1 pinned back to 0
C1_Witness ==
    /\ fd.solver = "backend" /\ fd.bc_type = "dirichlet" /\ fd.ic_type = "step"
    /\ FDStepping /\ fd.n >= 1 /\ fd.nx >= 3
    /\ Row(0)[1] = One
    /\ Row(1)[2] # Zero
    /\ Row(1)[1] = Zero /\ Row(1)[fd.nx] = Zero

\* C2: under the NEUMANN policy the ends of row n+1 are written after its
\* interior, and each end equals its nearest neighbour of the same row, for
\* every step and every nx >= 2 (nx = 2 and nx = 3 included).
C2_NeumannEndsCopied ==
    /\ []((policy(fd) = "neumann" /\ fd.nx >= 2) =>
            \A k \in CompletedRows :
                Row(k)[1] = Row(k)[2] /\ Row(k)[fd.nx] = Row(k)[fd.nx - 1])
    /\ [][(policy(fd) = "neumann" /\ fd.nx >= 2) =>
            \* the interior step leaves the ends as allocated ...
            /\ (fd.pc = "loop" /\ fd'.pc = "boundary") =>
                  /\ fd'.u[fd.n + 2][1] = fd.u[fd.n + 2][1]
                  /\ fd'.u[fd.n + 2][fd.nx] = fd.u[fd.n + 2][fd.nx]
                  /\ \A i \in 2..(fd.nx - 1) :
                        fd'.u[fd.n + 2][i] = heat_stencil(fd.u[fd.n + 1], i, fd.r)
            \* ... and the boundary step writes the ends, from the interior
            \* already in place, and nothing else
            /\ (fd.pc = "boundary" /\ fd'.pc = "loop") =>
                  /\ \A i \in 2..(fd.nx - 1) :
                        fd'.u[fd.n + 2][i] = fd.u[fd.n + 2][i]
                  /\ fd'.u[fd.n + 2][1] = fd'.u[fd.n + 2][2]
                  /\ fd'.u[fd.n + 2][fd.nx] = fd'.u[fd.n + 2][fd.nx - 1]
                  /\ fd.nx >= 3 =>
                        /\ fd'.u[fd.n + 2][1] = fd.u[fd.n + 2][2]
                        /\ fd'.u[fd.n + 2][fd.nx] = fd.u[fd.n + 2][fd.nx - 1]
         ]_vars

\* nx = 3: the single interior point is the neighbour of both ends
C2_Witness ==
    /\ fd.solver = "backend" /\ fd.bc_type = "neumann" /\ fd.nx = 3
    /\ FDStepping /\ fd.n >= 1
    /\ Row(1)[2] # Zero /\ Row(1)[2] # Row(0)[2]
    /\ Row(1)[1] = Row(1)[2] /\ Row(1)[3] = Row(1)[2]

\* C3: under the MIXED policy every row produced by a time step has its left
\* end 0 and its right end equal to its interior neighbour.
C3_MixedEnds ==
    (policy(fd) = "mixed" /\ fd.nx >= 2) =>
        \A k \in CompletedRows :
            Row(k)[1] = Zero /\ Row(k)[fd.nx] = Row(k)[fd.nx - 1]

C3_Witness ==
    /\ fd.solver = "backend" /\ fd.bc_type = "mixed" /\ fd.nx >= 3
    /\ FDStepping /\ fd.n >= 1
    /\ Row(1)[1] = Zero
    /\ Row(1)[fd.nx] # Zero /\ Row(1)[fd.nx] = Row(1)[fd.nx - 1]

\* the arguments section 4.3 of the specification rejects
InvalidFDArguments(c) ==
    \/ c.nx < 2
    \/ c.nt < 2
    \/ RLe(c.T, Zero)
    \/ c.ic_type \notin IC_TYPES
    \/ c.bc_type \notin BC_TYPES

\* C5: the finite-difference solve fails with InvalidParameterError, before
\* computing any row, whenever nx < 2, nt < 2, T <= 0 or a tag is not one of
\* the enumerated values; an unrecognized tag never falls through silently.
C5_InvalidArgumentsRejected ==
    (fd.solver = "backend" /\ InvalidFDArguments(fd) /\ fd.pc # "call") =>
        (fd.pc = "raised" /\ fd.error = "InvalidParameterError")

(***************************************************************************)
(* Properties of the stateless core (SpecCore)                             *)
(***************************************************************************)
\* C6: the analytical solve fails with UnsupportedConfigurationError whenever
\* the requested boundary condition is not DIRICHLET; it never returns a
\* field for such a request.
C6_NonDirichletRejected ==
    (core.op = "AnalyticalSolver.solve" /\ core.bc_type # "dirichlet") =>
        core.result.error = "UnsupportedConfigurationError"

\* C7: constructing an equation fails with InvalidParameterError when the
\* diffusivity/viscosity is <= 0 or the domain length is <= 0 (the
\* constructors take no condition tag at all).
C7_InvalidEquationRejected ==
    (/\ core.op \in {"HeatEquation", "BurgersEquation"}
     /\ (RLe(core.alpha, Zero) \/ RLe(core.L, Zero))) =>
        core.result.error = "InvalidParameterError"

Compared == core.op = "compare_solutions" /\ core.result.type = "comparison"

\* C9: a result compared with itself gives grids_matched = true, a pointwise
\* error of exactly 0 at every grid point, and max, mean and rms error 0.
C9_SelfComparisonIsZero ==
    (core.op = "compare_solutions" /\ ~IsNone(core.a) /\ core.a = core.b) =>
        /\ Compared
        /\ core.result.grids_match = TRUE
        /\ Len(core.result.error) = Len(core.a.x)
        /\ \A i \in 1..Len(core.result.error) : core.result.error[i] = Zero
        /\ ~IsNone(core.metrics) =>
              /\ core.metrics.max_error = Zero
              /\ core.metrics.mean_error = Zero
              /\ core.metrics.rmse = Zero

\* a self-comparison of a result whose final row is not zero, metrics made
C9_Witness ==
    /\ core.op = "compare_solutions" /\ ~IsNone(core.a) /\ core.a = core.b
    /\ \E i \in 1..Len(core.a.x) : last_row(core.a.u)[i] # Zero
    /\ ~IsNone(core.metrics)
    /\ core.metrics.rmse = Zero

\* the value at c of the piecewise-linear function through (x[j], v[j]),
\* as the weighted mean of the two samples that bracket c
LinearValue(c, x, v) ==
    LET j == CHOOSE k \in 1..(Len(x) - 1) : RLe(x[k], c) /\ RLe(c, x[k + 1])
    IN  RDiv(RAdd(RMul(v[j], RSub(x[j + 1], c)), RMul(v[j + 1], RSub(c, x[j]))),
             RSub(x[j + 1], x[j]))

\* C10: when the two spatial grids differ in length, the comparison returns
\* grids_matched = false and a common grid of exactly max(nx1, nx2) uniformly
\* spaced points on [0, 1]; both final rows are linearly interpolated onto it;
\* and the grid-equality test does not fail on the mismatched lengths.
C10_MismatchedGrids ==
    (/\ core.op = "compare_solutions" /\ ~IsNone(core.a) /\ ~IsNone(core.b)
     /\ Len(core.a.x) # Len(core.b.x)) =>
        LET N == Max(Len(core.a.x), Len(core.b.x))
            res == core.result
        IN  /\ Compared
            /\ res.grids_match = FALSE
            /\ Len(res.common_x) = N
            /\ \A i \in 1..N : res.common_x[i] = R(i - 1, N - 1)
            /\ Len(res.error) = N
            /\ \A i \in 1..N :
                  res.error[i] =
                      RAbs(RSub(LinearValue(res.common_x[i], core.b.x,
                                            last_row(core.b.u)),
                                LinearValue(res.common_x[i], core.a.x,
                                            last_row(core.a.u))))

\* a 3-point and a 4-point grid: the common grid has 4 points, two of them
\* strictly inside the intervals of the coarser grid, and the error is not 0
C10_Witness ==
    /\ Compared
    /\ Len(core.a.x) = 3 /\ Len(core.b.x) = 4
    /\ core.result.grids_match = FALSE
    /\ Len(core.result.common_x) = 4
    /\ core.result.common_x[2] = R(1, 3)
    /\ core.result.error[2] # Zero

(***************************************************************************)
(* Properties of the controllers and the script (Spec)                     *)
(***************************************************************************)
\* r = alpha * dt / dx^2 with dx = 1 / (nx - 1), dt = T / (nt - 1)
DiffusionNumber(params) ==
    RDiv(RMul(params.alpha, RDiv(params.T, R(params.nt - 1, 1))),
         RMul(RDiv(One, R(params.nx - 1, 1)), RDiv(One, R(params.nx - 1, 1))))

CFLWarning == Show("warning", "CFL condition violated")

Shown(e) == \E i \in 1..Len(ui.shown) : ui.shown[i] = e

\* a finite-difference run whose widget values passed the validation, after
\* its handler has returned
ValidatedNumericalRun ==
    /\ ui.pc \in {"dashboard", "done"}
    /\ ui.sidebar_data.button = "run_numerical"
    /\ Validation(ui.sidebar_data) = <<>>

\* C4: when r = alpha*dt/dx^2 exceeds 0.5 a finite-difference run surfaces a
\* stability warning before stepping and is not blocked: the solver runs to
\* completion and its result is returned and stored; when r <= 0.5 no
\* stability warning is surfaced.
C4_StabilityWarning ==
    ValidatedNumericalRun =>
        LET sd == ui.sidebar_data
            params == Params(sd, sd.nx_numerical, sd.nt_numerical)
        IN  IF RLt(Half, DiffusionNumber(params))
            THEN /\ \E i, j \in 1..Len(ui.shown) :
                       /\ i < j
                       /\ ui.shown[i] = CFLWarning
                       /\ ui.shown[j] = Invoked("numerical", params)
                 /\ "numerical_data" \in DOMAIN session
                 /\ session["numerical_data"].type = "numerical"
                 /\ session["numerical_data"].params = params
                 /\ session["numerical_data"].u =
                        FiniteDifferenceSolver_solve(params.alpha, params.nx,
                            params.nt, params.T, params.ic_type, params.bc_type).u
            ELSE ~Shown(CFLWarning)

\* the arguments a solver may be called with
ValidSolverArguments(params) ==
    /\ RLt(Zero, params.alpha)
    /\ RLt(Zero, params.T)
    /\ params.nx >= 2
    /\ params.nt >= 2
    /\ params.ic_type \in {"sinusoidal", "gaussian", "step"}
    /\ params.bc_type \in {"dirichlet", "neumann", "mixed"}

\* C8: in run_analytical_simulation and run_numerical_simulation the whole
\* validation precedes the solver: no solver call is ever made with
\* alpha <= 0, T <= 0, nx < 2, nt < 2 or a tag outside the enumerations.
C8_ValidationBeforeSolver ==
    \A i \in 1..Len(ui.shown) :
        ui.shown[i].kind = "solve" =>
            /\ ValidSolverArguments(ui.shown[i].params)
            /\ Validation(ui.sidebar_data) = <<>>
            /\ \A j \in 1..Len(ui.shown) : ui.shown[j].kind = "error" => i < j

\* both solvers have been reached by validated runs
C8_Witness ==
    /\ ui.pc = "dashboard"
    /\ ui.sidebar_data.button = "run_numerical"
    /\ \E i \in 1..Len(ui.shown) :
          /\ ui.shown[i].kind = "solve"
          /\ ui.shown[i].params.nx = MaxNx
    /\ session["analytical_data"].type = "analytical"

(***************************************************************************)
(* Further properties of the comparison (SpecCore)                         *)
(***************************************************************************)
\* C11: every successful comparison, matched or interpolated, returns a
\* pointwise error with exactly as many entries as the returned common grid.
C11_ErrorLengthIsGridLength ==
    Compared => Len(core.result.error) = Len(core.result.common_x)

\* an interpolated comparison of a 2-point with a 4-point grid
C11_Witness ==
    /\ Compared
    /\ ~core.result.grids_match
    /\ Len(core.a.x) = 2 /\ Len(core.b.x) = 4
    /\ Len(core.result.error) = 4 /\ Len(core.result.common_x) = 4

\* C12: when grids_matched is true nothing is interpolated: the returned grid
\* is the original grid and the error at index i is exactly
\* |u_numerical[last][i] - u_analytical[last][i]| of the original final rows.
C12_MatchedBranchIsExact ==
    (Compared /\ core.result.grids_match) =>
        /\ core.result.common_x = core.a.x
        /\ core.result.common_x = core.b.x
        /\ Len(core.result.error) = Len(core.a.x)
        /\ \A i \in 1..Len(core.a.x) :
              LET d == RSub(core.b.u[Len(core.b.u)][i],
                            core.a.u[Len(core.a.u)][i])
              IN  core.result.error[i] = (IF d[1] < 0 THEN <<-d[1], d[2]>> ELSE d)

\* an analytical and a finite-difference result on the same 3-point grid,
\* the finite-difference row below the analytical one at the midpoint
C12_Witness ==
    /\ Compared
    /\ core.result.grids_match
    /\ core.a.type = "analytical" /\ core.b.type = "numerical"
    /\ Len(core.a.x) = 3
    /\ RLt(core.b.u[Len(core.b.u)][2], core.a.u[Len(core.a.u)][2])
    /\ RLt(Zero, core.result.error[2])

\* C13: the comparison fails with IncompleteDataError when either result is
\* absent, and then produces no error array, grid or flag.
C13_IncompleteDataRejected ==
    (core.op = "compare_solutions" /\ (IsNone(core.a) \/ IsNone(core.b))) =>
        core.result.type = "IncompleteDataError"

\* C14: a comparison never mutates its inputs: once it has returned, in
\* either branch, the fields u and the grids x of both arguments are
\* element for element what they were.
C14_InputsUnchanged ==
    (core.op = "compare_solutions" /\ ~IsNone(core.a) /\ ~IsNone(core.b)) =>
        /\ core.after.analytical_u = core.a.u
        /\ core.after.analytical_x = core.a.x
        /\ core.after.numerical_u = core.b.u
        /\ core.after.numerical_x = core.b.x

\* a matched comparison with a non-zero error: the final rows differ, and
\* the second argument still holds its own final row, not the error
C14_Witness ==
    /\ Compared
    /\ core.result.grids_match
    /\ core.result.error # core.b.u[Len(core.b.u)]
    /\ \E i \in 1..Len(core.result.error) : core.result.error[i] # Zero
    /\ core.after.numerical_u = core.b.u

(***************************************************************************)
(* Further properties of the finite-difference solvers (SpecFD)            *)
(***************************************************************************)
\* the backend solver has returned from a second call with the arguments of
\* the first
CalledTwice == fd.pc = "returned" /\ ~IsNone(fd.first)

C17_SequentialTimeLoop ==
    /\ []((FDStepping /\ fd.nx >= 2 /\ fd.nt >= 2) =>
            /\ fd.n \in 0..(fd.nt - 1)
            /\ fd.pc = "boundary" => fd.n <= fd.nt - 2
            /\ fd.pc = "returned" => fd.n = fd.nt - 1
            /\ Len(fd.u) = fd.nt)
    /\ [][(fd.nx >= 2 /\ fd.nt >= 2) =>
            \* the interior of row n+1 from row n, no other row touched
            /\ (fd.pc = "loop" /\ fd'.pc = "boundary") =>
                  /\ fd.n <= fd.nt - 2
                  /\ fd'.n = fd.n
                  /\ \A k \in 1..fd.nt : k # fd.n + 2 => fd'.u[k] = fd.u[k]
                  /\ fd'.u[fd.n + 2][1] = fd.u[fd.n + 2][1]
                  /\ fd'.u[fd.n + 2][fd.nx] = fd.u[fd.n + 2][fd.nx]
                  /\ fd.solver \notin BurgersSolvers =>
                        \A i \in 2..(fd.nx - 1) :
                            fd'.u[fd.n + 2][i] =
                                heat_stencil(fd.u[fd.n + 1], i, fd.r)
            \* then the ends of row n+1, and n moves on by one
            /\ (fd.pc = "boundary" /\ fd'.pc # "boundary") =>
                  /\ fd'.pc = "loop"
                  /\ fd'.n = fd.n + 1
                  /\ \A k \in 1..fd.nt : k # fd.n + 2 => fd'.u[k] = fd.u[k]
                  /\ \A i \in 2..(fd.nx - 1) :
                        fd'.u[fd.n + 2][i] = fd.u[fd.n + 2][i]
            \* the loop is left only when n has reached nt-1
            /\ (fd.pc = "loop" /\ fd'.pc = "returned") =>
                  /\ fd.n = fd.nt - 1
                  /\ fd'.n = fd.n
                  /\ fd'.u = fd.u
         ]_vars

\* a backend run of three rows has returned: rows 1 and 2 were written in
\* that order and row 2 is the last
C17_Witness ==
    /\ fd.pc = "returned" /\ fd.solver = "backend"
    /\ fd.nt = 3 /\ fd.nx = 4 /\ fd.n = 2
    /\ fd.u[2][2] # fd.u[1][2]
    /\ fd.u[3][2] # fd.u[2][2]

C20_BackendAnalyticalSolve ==
    core.op = "backend.AnalyticalSolver.solve" =>
        /\ core.result.error = "none"
        /\ Len(core.result.u) = core.nt
        /\ \A k \in 1..core.nt : Len(core.result.u[k]) = core.nx
        /\ Len(core.result.x) = core.nx
        /\ Len(core.result.t) = core.nt

(***************************************************************************)
(* Properties of the two solvers side by side (SpecPar)                    *)
(***************************************************************************)
\* C16: the analytical and the finite-difference solve may run concurrently
\* without coordination: in every interleaving each returns what it returns
\* when run alone, and no step of one changes anything of the other.
C16_IndependentSolvers ==
    /\ [](fd.pc = "returned" =>
            LET alone == FiniteDifferenceSolver_solve(fd.alpha, fd.nx, fd.nt,
                             fd.T, fd.ic_type, fd.bc_type)
            IN  fd.u = alone.u /\ fd.x = alone.x /\ fd.t = alone.t)
    /\ [](core.pc = "returned" =>
            LET alone == AnalyticalSolver_solve(core.alpha, core.nx, core.nt,
                             core.T, core.ic_type, core.bc_type)
            IN  core.u = alone.u /\ core.x = alone.x /\ core.t = alone.t)
    /\ [][fd' = fd \/ core' = core]_vars

\* both have returned from three-row runs on 3-point grids, with different
\* non-zero final rows
C16_Witness ==
    /\ fd.pc = "returned" /\ core.pc = "returned"
    /\ fd.nx = 3 /\ core.nx = 3 /\ fd.nt = 3 /\ core.nt = 3
    /\ fd.u[3][2] # Zero /\ core.u[3][2] # Zero
    /\ fd.u[3] # core.u[3]

(***************************************************************************)
(* Further properties of the services and the script (Spec)                *)
(***************************************************************************)
\* a run of the analytical solver whose widget values passed the validation,
\* after its handler has returned
ValidatedAnalyticalRun ==
    /\ ui.pc \in {"dashboard", "done"}
    /\ ui.sidebar_data.button = "run_analytical"
    /\ Validation(ui.sidebar_data) = <<>>

\* C21: when the backend solver module cannot be imported the service uses
\* its built-in fallback solver: compute_solution still returns a solution
\* with success = True, and does not report the solver as unavailable.
C21_FallbackSolverUsed ==
    /\ (ValidatedNumericalRun /\ ~svc.numerical) =>
          /\ Shown(Show("success", "Numerical solution computed"))
          /\ ~Shown(Show("error", "Numerical solver not available"))
          /\ session["numerical_data"].type = "numerical"
    /\ (ValidatedAnalyticalRun /\ ~svc.analytical) =>
          /\ Shown(Show("success", "Analytical solution computed"))
          /\ ~Shown(Show("error", "Analytical solver not available"))
          /\ session["analytical_data"].type = "analytical"

(***************************************************************************)
(* The stencils (SpecFD)                                                   *)
(***************************************************************************)
\* the inner loop of step n has just run: fd is the call before, fd' after
InteriorStep == fd.pc = "loop" /\ fd'.pc = "boundary"

\* the interior points u[k][1 .. nx-2] of every row of a field
InteriorValues(u) == [k \in 1..Len(u) |-> SubSeq(u[k], 2, Len(u[k]) - 1)]

C23_BurgersInterior ==
    /\ [][(InteriorStep /\ fd.solver \in BurgersSolvers) =>
            \A i \in 2..(fd.nx - 1) :
                LET row == fd.u[fd.n + 1]
                    u_x == RDiv(RSub(row[i + 1], row[i - 1]),
                                RMul(R(2, 1), fd.dx))
                    u_xx == RDiv(RAdd(RSub(row[i + 1], RMul(R(2, 1), row[i])),
                                      row[i - 1]),
                                 RMul(fd.dx, fd.dx))
                IN  fd'.u[fd.n + 2][i] =
                        RAdd(RSub(row[i], RMul(RMul(fd.dt, row[i]), u_x)),
                             RMul(RMul(fd.alpha, fd.dt), u_xx))]_vars
    /\ [](fd.solver \in BurgersSolvers =>
            \A k \in CompletedRows :
                Row(k)[1] = Zero /\ Row(k)[fd.nx] = Zero)

\* a Burgers run in which the advection term and the diffusion term both
\* contributed to an interior point
C23_Witness ==
    /\ fd.solver \in BurgersSolvers /\ fd.pc = "returned"
    /\ fd.nx >= 4 /\ fd.nt >= 3
    /\ RLt(Zero, fd.alpha) /\ RLt(Zero, fd.dt)
    /\ fd.u[2][2] # fd.u[1][2]
    /\ fd.u[2][2] # fd.u[2][fd.nx - 1]

(***************************************************************************)
(* Row 0 (SpecPar)                                                         *)
(***************************************************************************)
\* the initial profile at a grid point, on the unit interval (L = 1)
ProfileAt(ic_type, xi) ==
    CASE ic_type = "sinusoidal" -> sin_pi(xi)
      [] ic_type = "gaussian" ->
           exp_neg(RMul(R(100, 1), RMul(RSub(xi, Half), RSub(xi, Half))))
      [] ic_type = "step" -> IF RLt(xi, Half) THEN One ELSE Zero

\* the analytical loop has written row 0
AnalyticalRowZeroWritten == core.pc \in {"loop", "returned"} /\ core.i >= 1

\* C24: for each enumerated initial condition, row 0 of the analytical field
\* and row 0 of the finite-difference field equal the initial profile at
\* every grid point, the two ends included (sinusoidal sin(pi*x); gaussian
\* exp(-100*(x - 1/2)^2); step 1 for x < 1/2 and 0 otherwise, so 0 at
\* x = 1/2), and no later step of either loop modifies row 0.
C24_RowZeroIsInitialProfile ==
    /\ []((FDStepping /\ fd.ic_type \in IC_TYPES) =>
            \A i \in 1..fd.nx : fd.u[1][i] = ProfileAt(fd.ic_type, fd.x[i]))
    /\ []((AnalyticalRowZeroWritten /\ core.ic_type \in IC_TYPES) =>
            \A j \in 1..core.nx :
                core.u[1][j] = ProfileAt(core.ic_type, core.x[j]))
    /\ [][(FDStepping /\ fd'.pc # "call") => fd'.u[1] = fd.u[1]]_vars
    /\ [][AnalyticalRowZeroWritten => core'.u[1] = core.u[1]]_vars

\* both solvers have returned step profiles on grids that hold x = 1/2,
\* after at least two steps each, under a policy that moves the ends
C24_Witness ==
    /\ fd.pc = "returned" /\ core.pc = "returned"
    /\ fd.ic_type = "step" /\ fd.bc_type = "neumann"
    /\ fd.nx = 3 /\ fd.n >= 2 /\ core.nx = 3 /\ core.i >= 3
    /\ fd.x[2] = Half /\ fd.u[1] = <<One, Zero, Zero>>
    /\ core.u[1] = <<One, Zero, Zero>>
    /\ fd.u[2][1] # fd.u[1][1]

(***************************************************************************)
(* Discrete maximum principle (SpecFD)                                     *)
(***************************************************************************)
\* a heat call in the stable range of the diffusion number, 0 < r <= 1/2,
\* under one of the three boundary policies
StableHeatCall ==
    /\ FDStepping
    /\ fd.solver \notin BurgersSolvers
    /\ policy(fd) \in BC_TYPES
    /\ RLt(Zero, fd.r) /\ RLe(fd.r, Half)

\* max_i |a[i]| <= max_j |b[j]|
MaxAbsLe(a, b) ==
    \A i \in 1..Len(a) : \E j \in 1..Len(b) : RLe(RAbs(a[i]), RAbs(b[j]))

\* C25: for the heat FTCS scheme with 0 < r <= 1/2 and any of the three
\* boundary policies the maximum absolute value never grows from a row to
\* the next, max_i |u[n+1][i]| <= max_i |u[n][i]| for every step n, so every
\* entry of the field is bounded by the maximum absolute value of row 0.
C25_MaximumPrinciple ==
    StableHeatCall =>
        /\ \A k \in CompletedRows : MaxAbsLe(Row(k), Row(k - 1))
        /\ \A k \in CompletedRows : MaxAbsLe(Row(k), Row(0))

\* a stable call that has completed two steps on a grid with two interior
\* points, under the policy that copies the ends from the interior
C25_Witness ==
    /\ StableHeatCall /\ fd.pc = "returned"
    /\ fd.nx >= 4 /\ fd.n >= 2
    /\ fd.bc_type = "neumann" /\ fd.solver = "backend"
    /\ Row(2)[1] # Zero /\ Row(2) # Row(1)

(***************************************************************************)
(* The stored results and the dashboard (Spec)                             *)
(***************************************************************************)
\* a result is stored under the key
Stored(s, key) == key \in DOMAIN s /\ ~IsNone(s[key])

\* the script run has drawn its comparison dashboard
DashboardDrawn ==
    /\ ui.pc = "done"
    /\ ui.shown # <<>>
    /\ \/ ui.shown[Len(ui.shown)].kind = "comparison"
       \/ ui.shown[Len(ui.shown)] = Show("info", "Comparison not available")

ComparisonAvailable == ui.shown[Len(ui.shown)].kind = "comparison"

\* the step stores the result of a successful run of the given solver
StoringRun(button, text) ==
    /\ ui.pc = "buttons" /\ ui.sidebar_data.button = button
    /\ ui'.shown[Len(ui'.shown)] = Show("success", text)

\* C26: after any sequence of run and clear events the comparison succeeds
\* in a script run if and only if both an analytical and a numerical result
\* are stored at that moment; once a result is cleared the comparison stays
\* unavailable until the corresponding run stores a new result, which is the
\* only step that fills an empty slot.
C26_ComparisonIffBothStored ==
    /\ [](DashboardDrawn =>
            (ComparisonAvailable <=>
                (Stored(session, "analytical_data")
                    /\ Stored(session, "numerical_data"))))
    /\ [][(~Stored(session, "analytical_data")
              /\ Stored(session', "analytical_data")) =>
            StoringRun("run_analytical", "Analytical solution computed")]_vars
    /\ [][(~Stored(session, "numerical_data")
              /\ Stored(session', "numerical_data")) =>
            StoringRun("run_numerical", "Numerical solution computed")]_vars
    /\ [][(ui.pc = "buttons" /\ ui.sidebar_data.button = "clear_analytical") =>
            ~Stored(session', "analytical_data")]_vars
    /\ [][(ui.pc = "buttons" /\ ui.sidebar_data.button = "clear_numerical") =>
            ~Stored(session', "numerical_data")]_vars

\* a dashboard that shows the comparison
C26_Witness ==
    /\ DashboardDrawn /\ ComparisonAvailable
    /\ Stored(session, "analytical_data") /\ Stored(session, "numerical_data")

\* a run handler is about to execute
RunHandler ==
    /\ ui.pc = "buttons"
    /\ ui.sidebar_data.button \in {"run_analytical", "run_numerical"}

\* the handler that has just executed reported a failure: validation errors,
\* a service result with success = False, or an exception
RunFailed ==
    \E k \in 1..Len(ui'.shown) : ui'.shown[k].kind \in {"error", "exception"}

\* C27: a simulation run that fails, because the validation returns errors
\* or because the solver service reports success = False, leaves the session
\* state unchanged: a stored analytical or numerical result is neither
\* cleared nor overwritten.
C27_FailedRunKeepsSession ==
    [][(RunHandler /\ RunFailed) => session' = session]_vars

\* a run of the analytical solver has just failed its validation while an
\* analytical and a numerical result were stored
C27_Witness ==
    /\ ui.pc = "dashboard"
    /\ ui.sidebar_data.button = "run_analytical"
    /\ Validation(ui.sidebar_data) # <<>>
    /\ Stored(session, "analytical_data") /\ Stored(session, "numerical_data")

\* every key but the given one is left exactly as it was
OnlyChanges(key) ==
    /\ DOMAIN session' = DOMAIN session
    /\ \A k \in DOMAIN session \ {key} : session'[k] = session[k]

\* C28: the two stored results are independent slots:
\* run_analytical_simulation and clear_analytical change only
\* analytical_data, run_numerical_simulation and clear_numerical change only
\* numerical_data; the other slot is left exactly as it was.
C28_IndependentSlots ==
    /\ [][(ui.pc = "buttons" /\ ui.sidebar_data.button
                \in {"run_analytical", "clear_analytical"}) =>
            OnlyChanges("analytical_data")]_vars
    /\ [][(ui.pc = "buttons" /\ ui.sidebar_data.button
                \in {"run_numerical", "clear_numerical"}) =>
            OnlyChanges("numerical_data")]_vars

\* the numerical result has just been cleared next to a stored analytical
\* result
C28_Witness ==
    /\ ui.pc = "start" /\ ui.shown # <<>>
    /\ "numerical_data" \in DOMAIN session /\ IsNone(session["numerical_data"])
    /\ Stored(session, "analytical_data")

\* C29: across any sequence of script runs, Clear All included,
\* get_solution_data is never called while the analytical_data or the
\* numerical_data key is missing: clear_all is always followed by a rerun,
\* in which initialize_session_state recreates both keys, as None, before
\* the dashboards read them.
C29_NoReadOfMissingKey ==
    /\ [](ui.pc = "dashboard" =>
            /\ {"analytical_data", "numerical_data"} \subseteq DOMAIN session
            /\ get_solution_data(session, "analytical") # [type |-> "AttributeError"]
            /\ get_solution_data(session, "numerical") # [type |-> "AttributeError"])
    /\ [][(ui.pc = "buttons" /\ ui.sidebar_data.button = "clear_all") =>
            (session' = <<>> /\ ui'.pc = "start")]_vars
    /\ [][(ui.pc = "start" /\ session = <<>>) =>
            (IsNone(session'["analytical_data"])
                /\ IsNone(session'["numerical_data"]))]_vars

\* Clear All has just removed every key and asked for the rerun
C29_Witness ==
    ui.pc = "start" /\ ui.shown # <<>> /\ session = <<>>

\* a record's params describe its arrays
SelfConsistent(record) ==
    /\ record.params.nx = Len(record.x)
    /\ record.params.nt = Len(record.t)
    /\ record.params.nt = Len(record.u)
    /\ \A k \in 1..Len(record.u) : Len(record.u[k]) = record.params.nx

\* the record stored by the run that has just succeeded carries the
\* parameters of that run's solver call
StoredWithCallParams(key, service) ==
    \A k \in 1..Len(ui.shown) :
        (ui.shown[k].kind = "solve" /\ ui.shown[k].text = service) =>
            (Stored(session, key) /\ session[key].params = ui.shown[k].params)

\* C30: every stored solution record is self-consistent: its params are the
\* parameters passed to the solver call that produced its u, x and t, so
\* params.nx is the length of x and the number of columns of u, and
\* params.nt is the length of t and the number of rows of u, after any
\* sequence of runs and clears.
C30_StoredRecordSelfConsistent ==
    /\ \A key \in {"analytical_data", "numerical_data"} :
          Stored(session, key) => SelfConsistent(session[key])
    /\ StoredWithCallParams("analytical_data", "analytical")
    /\ StoredWithCallParams("numerical_data", "numerical")

\* a numerical result on the finest grid has replaced one on the coarser
\* grid, next to an analytical result on the coarser grid
C30_Witness ==
    /\ ui.pc = "dashboard" /\ ui.sidebar_data.button = "run_numerical"
    /\ Stored(session, "analytical_data") /\ Stored(session, "numerical_data")
    /\ session["numerical_data"].params.nx = MaxNx
    /\ session["analytical_data"].params.nx = 3
    /\ ui.sidebar_data.nx_analytical = MaxNx

====
